---- MODULE Spec2Model ----
(***************************************************************************)
(* Model of distributed/deploy/adaptive.py: the Adaptive and               *)
(* ElasticAdaptive autoscaling policies.                                   *)
(*                                                                         *)
(* Spec        the control loop: target, recommendations, scale_up and     *)
(*             scale_down, with the cluster and the scheduler as the       *)
(*             environment.                                                *)
(* SpecTarget  ElasticAdaptive.target as a function of the scheduler's     *)
(*             tasks and workers and of the cluster's worker collection.   *)
(***************************************************************************)
EXTENDS Integers, Sequences, FiniteSets, TLC

(* ------------------------------ bounds --------------------------------- *)
\* worker names are 1..NWorkers
NWorkers == 2
\* wait_count is drawn from 0..MaxWaitCount
MaxWaitCount == 3
\* the unclamped target is drawn from 0..MaxTarget
MaxTarget == 3
\* tasks known to the scheduler are 1..n for n <= NTasks
NTasks == 3
\* scheduler.workers holds at most NSchedWorkers entries
NSchedWorkers == 2
\* minimum is 0 or MaxMinimum
MaxMinimum == 1
\* maximum
MaxMaximum == 2

Workers == 1..NWorkers

VARIABLES
    strategy,        \* class of the instance: "Adaptive" or "ElasticAdaptive"
    wait_count,      \* self.wait_count
    minimum,         \* self.minimum
    maximum,         \* self.maximum
    kwargs,          \* the extra keyword arguments given to the constructor
    plan,            \* self.cluster.plan
    requested,       \* self.cluster.requested
    close_counts,    \* self.close_counts: worker -> consecutive suggestions
    pc,              \* position of the running tick (or direct call)
    target,          \* argument of the running recommendations call, or -1
    rec_skew,        \* len(plan) # len(requested) when recommendations began
    reconciled,      \* "await self.cluster" happened in this recommendations call
    rec_plan,        \* the local "plan" of the running recommendations call
    prev_counts,     \* close_counts when recommendations began
    to_close,        \* the set to_close of the running recommendations call
    rec,             \* the recommendation returned
    run,             \* worker -> consecutive candidate ticks since no counter
    sd_called,       \* scale_down was called in this tick
    sd_workers,      \* argument of the running scale_down call
    calls,           \* remote calls issued in this tick, in order
    failed,          \* remote calls of this tick that raised
    raised,          \* the call whose error left its coroutine, or "none"
    raw_target,      \* what target() returned to the running tick, or -1
    ticking,         \* number of ticks that have begun and not ended
    was_closed,      \* the workers of the last ScaleDown dispatched, if it was
                     \* the last recommendation dispatched
    missed,          \* the timer fired while the tick has been suspended in
                     \* its current remote call
    tasks,           \* self.cluster.scheduler.tasks
    sched_workers,   \* self.cluster.scheduler.workers
    cluster_workers, \* self.cluster.workers
    t_queue,         \* the local "target" of target() after line 322, or -1
    t_memory,        \* the local "memory" of target() after line 334, or -1
    target_out       \* value returned by ElasticAdaptive.target, or -1

loop_vars == <<strategy, wait_count, minimum, maximum, kwargs, plan, requested,
               close_counts, pc, target, rec_skew, reconciled, rec_plan,
               prev_counts, to_close, rec, run, sd_called, sd_workers, calls,
               failed, raised, raw_target, ticking, was_closed,
               missed>>
snap_vars == <<tasks, sched_workers, cluster_workers, t_queue, t_memory,
               target_out>>
vars == <<loop_vars, snap_vars>>

(* ------------------------- ElasticAdaptive.target ---------------------- *)
TaskStates == {"no-worker", "waiting", "processing", "memory"}

\* the task graphs over k..n: a task's dependents come after it in the order
RECURSIVE TaskGraphsFrom(_, _)
TaskGraphsFrom(k, n) ==
    IF k > n THEN {[t \in {} |-> 0]}
    ELSE { [t \in k..n |-> IF t = k THEN p[1] ELSE p[2][t]] :
             p \in [state : TaskStates, dependents : SUBSET ((k+1)..n)]
                   \X TaskGraphsFrom(k + 1, n) }

TaskGraphs(n) == TaskGraphsFrom(1, n)

\* per-worker memory statistics (_memory_limit, _nbytes)
MemoryStats == {[memory_limit |-> 0, nbytes |-> 3],
                [memory_limit |-> 5, nbytes |-> 3]}

RECURSIVE SumOver(_, _, _)
SumOver(f, S, field) ==
    IF S = {} THEN 0
    ELSE LET x == CHOOSE y \in S : TRUE
         IN  f[x][field] + SumOver(f, S \ {x}, field)

Max(a, b) == IF a >= b THEN a ELSE b

\* lines 305-313: the tasks that are no-worker, waiting or processing
unblocked_tasks(ts) ==
    {t \in DOMAIN ts : \/ ts[t].state = "no-worker"
                       \/ ts[t].state = "waiting"
                       \/ ts[t].state = "processing"}

\* lines 317-319: the list built by extending with each task's dependents;
\* only its length is read, so the list is kept as the pairs <<task, dependent>>
future_pending_tasks(ts) ==
    {<<t, d>> \in (DOMAIN ts) \X (DOMAIN ts) :
        t \in unblocked_tasks(ts) /\ d \in ts[t].dependents}

\* line 321: doubling when the look-ahead exceeds twice the scheduler's workers
LookAhead_AtLeast(pending, nworkers) == pending >= 2 * nworkers

LookAhead(pending, nworkers) == pending > 2 * nworkers

\* lines 314-322
QueueTarget(ts, sw) ==
    LET n == Cardinality(unblocked_tasks(ts))
    IN  IF LookAhead(Cardinality(future_pending_tasks(ts)), Cardinality(DOMAIN sw))
        THEN n * 2 ELSE n

\* line 333.  "used > 0.6 * limit" is evaluated in floating point; for byte
\* counts below 2^53 it agrees with the integer test 10 * used > 6 * limit
MemoryPressure_AtLeast(used, limit) == 10 * used >= 6 * limit /\ limit > 0

MemoryPressure(used, limit) == 10 * used > 6 * limit /\ limit > 0

\* lines 325-334
MemoryTarget(sw, cw) ==
    LET limit == SumOver(sw, DOMAIN sw, "memory_limit")
        used  == SumOver(sw, DOMAIN sw, "nbytes")
    IN  IF MemoryPressure(used, limit) THEN 2 * Cardinality(cw) ELSE 0

\* lines 304-341
ElasticTarget(ts, sw, cw) == Max(MemoryTarget(sw, cw), QueueTarget(ts, sw))

AllTaskGraphs == UNION {TaskGraphs(n) : n \in 0..NTasks}

Snapshots ==
    [tasks : AllTaskGraphs,
     sched_workers : UNION {[1..k -> MemoryStats] : k \in 0..NSchedWorkers},
     cluster_workers : {1..m : m \in 0..NSchedWorkers}]

\* the values of the two parts of target() when the scheduler knows k workers
QueueTargets(k) == {QueueTarget(ts, [i \in 1..k |-> 0]) : ts \in AllTaskGraphs}

MemoryTargets(k) ==
    {MemoryTarget(sw, 1..j) : sw \in [1..k -> MemoryStats], j \in 0..NSchedWorkers}

\* the values ElasticAdaptive.target can return: the tasks and the memory
\* statistics vary independently
ElasticTargets ==
    UNION { LET qs == QueueTargets(k)
                ms == MemoryTargets(k)
            IN  {Max(m, q) : m \in ms, q \in qs} : k \in 0..NSchedWorkers }

\* the workers the spec calls observedWorkers in the memory-pressure rule are
\* the entries of self.cluster.workers
observedWorkers == cluster_workers

(* ----------------------- the hysteresis counters ----------------------- *)
NoCounts == [w \in {} |-> 0]

NoRec == [status |-> "none", n |-> 0, workers |-> {}]

\* keyword arguments, as a set of <<name, value>> pairs
NoKwargs == {}

SomeKwargs == {<<"memory_ratio", 2>>}

\* a remote call: positional count, workers named, extra keyword arguments,
\* and the keyword arguments passed as True
Call(op, n, ws) ==
    [op |-> op, n |-> n, workers |-> ws, kw |-> NoKwargs, flags |-> {}]

\* lines 79-92 and 245-253: what self._workers_to_close_kwargs holds after
\* construction. Adaptive.__init__ stores its **kwargs; ElasticAdaptive.__init__
\* accepts **kwargs and calls super().__init__ without them
workers_to_close_kwargs(st, kw) == IF st = "Adaptive" THEN kw ELSE NoKwargs

\* lines 176-181: the scheduler call made by workers_to_close
WorkersToCloseCall(t) ==
    [Call("workers_to_close", t, {})
        EXCEPT !.kw = workers_to_close_kwargs(strategy, kwargs)]

\* self.close_counts is created empty with the loop and reads 0 for a worker
\* it does not hold
InitCloseCounts == NoCounts

Count(cc, w) == IF w \in DOMAIN cc THEN cc[w] ELSE 0

\* lines 277-278: every candidate's counter goes up by one
Incremented_NewAtZero(cc, tc) ==
    [w \in (DOMAIN cc) \cup tc |->
        IF w \in tc /\ w \in DOMAIN cc THEN cc[w] + 1 ELSE Count(cc, w)]

Incremented(cc, tc) ==
    [w \in (DOMAIN cc) \cup tc |-> IF w \in tc THEN Count(cc, w) + 1 ELSE cc[w]]

\* line 279: the counter has reached wait_count
Reached_After(c, wc) == c > wc

Reached(c, wc) == c >= wc

\* lines 276-280
firmly_close(cc, tc, wc) == {w \in tc : Reached(cc[w], wc)}

\* line 283: the keys deleted from close_counts
Unseen_Paused(k, fc, tc) == k \in fc

Unseen(k, fc, tc) == k \in fc \/ k \notin tc

\* lines 282-284
Cleared_KeepFirm(cc, fc, tc) == [k \in (DOMAIN cc) \cap tc |-> cc[k]]

Cleared(cc, fc, tc) ==
    [k \in {j \in DOMAIN cc : ~Unseen(j, fc, tc)} |-> cc[k]]

\* lines 261-263
RecSame_Keep(cc) == [close_counts |-> cc, rec |-> [NoRec EXCEPT !.status = "same"]]

RecSame(cc) == [close_counts |-> NoCounts, rec |-> [NoRec EXCEPT !.status = "same"]]

\* lines 265-267
RecUp_Difference(t, p, cc) ==
    [close_counts |-> NoCounts,
     rec |-> [NoRec EXCEPT !.status = "up", !.n = t - Cardinality(p)]]

RecUp(t, p, cc) ==
    [close_counts |-> NoCounts, rec |-> [NoRec EXCEPT !.status = "up", !.n = t]]

\* line 272: to_close is still empty here
NeedCandidates_Never(t, p, tc) == FALSE

NeedCandidates(t, p, tc) == t < Cardinality(p) - Cardinality(tc)

\* lines 276-289, once to_close holds the candidates
RecDown_AlwaysDown(cc, tc, wc) ==
    LET counted == Incremented(cc, tc)
        fc      == firmly_close(counted, tc, wc)
    IN  [close_counts |-> Cleared(counted, fc, tc),
         rec |-> [NoRec EXCEPT !.status = "down", !.workers = fc]]

RecDown(cc, tc, wc) ==
    LET counted == Incremented(cc, tc)
        fc      == firmly_close(counted, tc, wc)
    IN  [close_counts |-> Cleared(counted, fc, tc),
         rec |-> IF fc # {} THEN [NoRec EXCEPT !.status = "down", !.workers = fc]
                 ELSE [NoRec EXCEPT !.status = "same"]]

\* consecutive ticks on which a worker was a candidate, counted from a tick
\* that found it without a counter
RunAfter(cc, tc) ==
    [w \in Workers |-> IF w \notin tc THEN 0
                       ELSE IF w \in DOMAIN cc THEN run[w] + 1 ELSE 1]

NoRun == [w \in Workers |-> 0]

(* --------------------------- the control loop -------------------------- *)
\* the cluster names its workers 1, 2, ...; only the sizes of plan and
\* requested are read
WorkerSets == {1..n : n \in 0..NWorkers}

\* the extra keyword arguments are read by nothing but the workers_to_close
\* call, so they are varied under one setting of wait_count and minimum only
KwargsWith(wc, mn) ==
    IF wc = 1 /\ mn = 0 THEN {NoKwargs, SomeKwargs} ELSE {NoKwargs}

Init ==
    /\ strategy \in {"Adaptive", "ElasticAdaptive"}
    /\ wait_count \in 0..MaxWaitCount
    /\ minimum \in {0, MaxMinimum}
    /\ maximum = MaxMaximum
    /\ kwargs \in KwargsWith(wait_count, minimum)
    /\ plan \in WorkerSets
    /\ requested \in WorkerSets
    /\ close_counts = InitCloseCounts
    /\ pc = "idle"
    /\ target = -1
    /\ rec_skew = FALSE
    /\ reconciled = FALSE
    /\ rec_plan = {}
    /\ prev_counts = NoCounts
    /\ to_close = {}
    /\ rec = NoRec
    /\ run = NoRun
    /\ sd_called = FALSE
    /\ sd_workers = {}
    /\ calls = <<>>
    /\ failed = {}
    /\ raised = "none"
    /\ raw_target = -1
    /\ ticking = 0
    /\ was_closed = {}
    /\ missed = FALSE
    /\ tasks = NoCounts
    /\ sched_workers = NoCounts
    /\ cluster_workers = {}
    /\ t_queue = -1
    /\ t_memory = -1
    /\ target_out = -1

config_vars == <<strategy, wait_count, minimum, maximum, kwargs>>

hist_vars == <<raw_target, ticking, was_closed>>

\* the target is kept within [minimum, maximum]
Clamp_UpperOnly(t) == IF t > maximum THEN maximum ELSE t

Clamp(t) == IF t > maximum THEN maximum ELSE IF t < minimum THEN minimum ELSE t

\* what target() can return: Adaptive.target passes on the scheduler's
\* adaptive_target, ElasticAdaptive.target computes it
TargetValues ==
    IF strategy = "Adaptive" THEN 0..MaxTarget ELSE ElasticTargets

\* a tick starts only when no tick is active
TickMayStart_Always(n) == TRUE

TickMayStart(n) == n = 0

\* a tick begins: target(), clamped, is handed to recommendations
AdaptBegin ==
    /\ pc = "idle"
    /\ TickMayStart(ticking)
    /\ \E t \in TargetValues :
          /\ raw_target' = t
          /\ target' = Clamp(t)
    /\ ticking' = ticking + 1
    /\ pc' = "recommend"
    /\ UNCHANGED <<config_vars, missed, plan, requested, close_counts, rec_skew,
                   reconciled, rec_plan, prev_counts, to_close, rec, run,
                   sd_called, sd_workers, calls, failed, raised, was_closed,
                   snap_vars>>

\* Adaptive.recommendations, lines 150-156, up to its first suspension
AdaptiveRecommendations ==
    /\ pc = "recommend"
    /\ strategy = "Adaptive"
    /\ rec_skew' = (Cardinality(plan) # Cardinality(requested))
    /\ prev_counts' = close_counts
    /\ IF Cardinality(plan) # Cardinality(requested)
       THEN /\ calls' = Append(calls, Call("cluster", 0, {}))
            /\ pc' = "sync"
       ELSE /\ calls' = calls
            /\ pc' = "core"
    /\ raw_target' = -1
    /\ UNCHANGED <<config_vars, missed, plan, requested, close_counts, target,
                   reconciled, rec_plan, to_close, rec, run, sd_called,
                   sd_workers, failed, raised, ticking, was_closed, snap_vars>>

\* "await self.cluster" returns: the cluster has brought requested to the plan
ClusterSynced ==
    /\ pc = "sync"
    /\ requested' = plan
    /\ reconciled' = TRUE
    /\ pc' = "core"
    /\ missed' = FALSE
    /\ UNCHANGED <<config_vars, plan, close_counts, target, rec_skew, rec_plan,
                   prev_counts, to_close, rec, run, sd_called, sd_workers,
                   calls, failed, raised, snap_vars, hist_vars>>

\* the base recommendations reached through super(): the same three cases,
\* with the candidates of workers_to_close
CoreRecommendations ==
    /\ pc = "core"
    /\ rec_plan' = plan
    /\ \E L \in SUBSET Workers :
         LET r == IF target = Cardinality(plan) THEN RecSame(close_counts)
                  ELSE IF target > Cardinality(plan)
                       THEN RecUp(target, plan, close_counts)
                       ELSE RecDown(close_counts, L, wait_count)
         IN  /\ target >= Cardinality(plan) => L = {}
             /\ close_counts' = r.close_counts
             /\ rec' = r.rec
             /\ to_close' = L
             /\ run' = IF target < Cardinality(plan)
                       THEN RunAfter(close_counts, L) ELSE NoRun
             /\ calls' = IF target < Cardinality(plan)
                         THEN Append(calls, WorkersToCloseCall(target))
                         ELSE calls
    /\ pc' = "dispatch"
    /\ UNCHANGED <<config_vars, missed, plan, requested, target, rec_skew, reconciled,
                   prev_counts, sd_called, sd_workers, failed, raised,
                   snap_vars, hist_vars>>

\* ElasticAdaptive.recommendations, lines 255-273, up to its suspension
ElasticRecommendations ==
    /\ pc = "recommend"
    /\ strategy = "ElasticAdaptive"
    /\ rec_skew' = (Cardinality(plan) # Cardinality(requested))
    /\ prev_counts' = close_counts
    /\ rec_plan' = plan
    /\ IF target = Cardinality(plan)
       THEN /\ close_counts' = RecSame(close_counts).close_counts
            /\ rec' = RecSame(close_counts).rec
            /\ run' = NoRun
            /\ calls' = calls
            /\ pc' = "dispatch"
       ELSE IF target > Cardinality(plan)
       THEN /\ close_counts' = RecUp(target, plan, close_counts).close_counts
            /\ rec' = RecUp(target, plan, close_counts).rec
            /\ run' = NoRun
            /\ calls' = calls
            /\ pc' = "dispatch"
       ELSE IF NeedCandidates(target, plan, {})
       THEN /\ calls' = Append(calls, WorkersToCloseCall(target))
            /\ pc' = "wtc"
            /\ UNCHANGED <<close_counts, rec, run>>
       ELSE /\ close_counts' = RecDown(close_counts, {}, wait_count).close_counts
            /\ rec' = RecDown(close_counts, {}, wait_count).rec
            /\ run' = RunAfter(close_counts, {})
            /\ calls' = calls
            /\ pc' = "dispatch"
    /\ raw_target' = -1
    /\ UNCHANGED <<config_vars, missed, plan, requested, target, reconciled,
                   to_close,
                   sd_called, sd_workers, failed, raised, ticking, was_closed,
                   snap_vars>>

\* workers_to_close answers L: lines 273-289
WorkersToCloseReturns ==
    /\ pc = "wtc"
    /\ \E L \in SUBSET Workers :
         LET r == RecDown(close_counts, L, wait_count)
         IN  /\ to_close' = L
             /\ close_counts' = r.close_counts
             /\ rec' = r.rec
             /\ run' = RunAfter(close_counts, L)
    /\ pc' = "dispatch"
    /\ missed' = FALSE
    /\ UNCHANGED <<config_vars, plan, requested, target, rec_skew, reconciled,
                   rec_plan, prev_counts, sd_called, sd_workers, calls, failed,
                   raised, snap_vars, hist_vars>>

\* line 273: no handler surrounds the await, so an error of workers_to_close
\* leaves recommendations; r is what had been raised before
CandidatesError_Swallowed(r) == r

CandidatesError(r) == "recommendations"

\* workers_to_close raises
WorkersToCloseFails ==
    /\ pc = "wtc"
    /\ failed' = failed \cup {"workers_to_close"}
    /\ raised' = CandidatesError(raised)
    /\ pc' = "done"
    /\ missed' = FALSE
    /\ UNCHANGED <<config_vars, plan, requested, close_counts, target,
                   rec_skew, reconciled, rec_plan, prev_counts, to_close, rec,
                   run, sd_called, sd_workers, calls, snap_vars, hist_vars>>

\* the recommendation is dispatched: up, down or nothing
Dispatch ==
    /\ pc = "dispatch"
    /\ pc' = CASE rec.status = "up" -> "scale_up"
               [] rec.status = "down" -> "scale_down"
               [] OTHER -> "done"
    /\ sd_workers' = IF rec.status = "down" THEN rec.workers ELSE sd_workers
    /\ sd_called' = (rec.status = "down")
    /\ prev_counts' = NoCounts
    /\ to_close' = {}
    /\ rec_plan' = {}
    /\ was_closed' = IF rec.status = "down" THEN rec.workers ELSE {}
    /\ UNCHANGED <<config_vars, missed, plan, requested, close_counts, target,
                   rec_skew, reconciled, rec, run, calls, failed, raised,
                   raw_target, ticking, snap_vars>>

\* scale_down called by hand with any collection of workers
CallScaleDown ==
    /\ pc = "idle"
    /\ \E ws \in SUBSET Workers : sd_workers' = ws
    /\ sd_called' = TRUE
    /\ pc' = "scale_down"
    /\ UNCHANGED <<config_vars, missed, plan, requested, close_counts, target,
                   rec_skew, reconciled, rec_plan, prev_counts, to_close, rec,
                   run, calls, failed, raised, snap_vars, hist_vars>>

\* line 184: "if not workers"
NoWorkers_Never(ws) == FALSE

NoWorkers(ws) == ws = {}

\* lines 190-192: retire_workers is called with remove=True, close_workers=True
RetireFlags_RemoveOnly == {"remove"}

RetireFlags == {"remove", "close_workers"}

\* scale_down, lines 183-193: return at once, or ask the scheduler to retire
ScaleDownEnter ==
    /\ pc = "scale_down"
    /\ IF NoWorkers(sd_workers)
       THEN /\ pc' = "done"
            /\ calls' = calls
       ELSE /\ pc' = "retire"
            /\ calls' = Append(calls, [Call("retire_workers", 0, sd_workers)
                                           EXCEPT !.flags = RetireFlags])
    /\ UNCHANGED <<config_vars, missed, plan, requested, close_counts, target,
                   rec_skew, reconciled, rec_plan, prev_counts, to_close, rec,
                   run, sd_called, sd_workers, failed, raised, snap_vars, hist_vars>>

\* lines 186-198: the awaits that lie inside "with log_errors()"
InLogErrors_RetireOnly(step) == step = "retire_workers"

InLogErrors(step) == step \in {"retire_workers", "cluster.scale_down"}

\* log_errors logs the error that leaves its block and does not pass it on
LogErrorsPropagates == FALSE

\* where an error raised by a step of scale_down ends
RaisedBy(step) ==
    IF InLogErrors(step) /\ ~LogErrorsPropagates THEN raised ELSE "scale_down"

\* retire_workers returns: lines 195-198, the cluster is asked to remove them
RetireReturns ==
    /\ pc = "retire"
    /\ calls' = Append(calls, Call("cluster.scale_down", 0, sd_workers))
    /\ pc' = "force"
    /\ missed' = FALSE
    /\ UNCHANGED <<config_vars, plan, requested, close_counts, target,
                   rec_skew, reconciled, rec_plan, prev_counts, to_close, rec,
                   run, sd_called, sd_workers, failed, raised, snap_vars, hist_vars>>

\* retire_workers raises: the error leaves the with block at line 189
RetireFails ==
    /\ pc = "retire"
    /\ failed' = failed \cup {"retire_workers"}
    /\ raised' = RaisedBy("retire_workers")
    /\ pc' = "done"
    /\ missed' = FALSE
    /\ UNCHANGED <<config_vars, plan, requested, close_counts, target,
                   rec_skew, reconciled, rec_plan, prev_counts, to_close, rec,
                   run, sd_called, sd_workers, calls, snap_vars, hist_vars>>

\* cluster.scale_down returns, awaited or not
ForceReturns ==
    /\ pc = "force"
    /\ pc' = "done"
    /\ missed' = FALSE
    /\ UNCHANGED <<config_vars, plan, requested, close_counts, target,
                   rec_skew, reconciled, rec_plan, prev_counts, to_close, rec,
                   run, sd_called, sd_workers, calls, failed, raised,
                   snap_vars, hist_vars>>

\* cluster.scale_down raises, at line 196 or line 198
ForceFails ==
    /\ pc = "force"
    /\ failed' = failed \cup {"cluster.scale_down"}
    /\ raised' = RaisedBy("cluster.scale_down")
    /\ pc' = "done"
    /\ missed' = FALSE
    /\ UNCHANGED <<config_vars, plan, requested, close_counts, target,
                   rec_skew, reconciled, rec_plan, prev_counts, to_close, rec,
                   run, sd_called, sd_workers, calls, snap_vars, hist_vars>>

\* scale_up, lines 200-201: the cluster is asked for n workers
ScaleUpEnter ==
    /\ pc = "scale_up"
    /\ calls' = Append(calls, Call("cluster.scale", rec.n, {}))
    /\ pc' = "scaling"
    /\ UNCHANGED <<config_vars, missed, plan, requested, close_counts, target,
                   rec_skew, reconciled, rec_plan, prev_counts, to_close, rec,
                   run, sd_called, sd_workers, failed, raised, snap_vars, hist_vars>>

\* cluster.scale returns, awaited or not
ScaleUpReturns ==
    /\ pc = "scaling"
    /\ pc' = "done"
    /\ missed' = FALSE
    /\ UNCHANGED <<config_vars, plan, requested, close_counts, target,
                   rec_skew, reconciled, rec_plan, prev_counts, to_close, rec,
                   run, sd_called, sd_workers, calls, failed, raised,
                   snap_vars, hist_vars>>

\* lines 200-203: scale_up has no handler around the request, so an error of
\* cluster.scale leaves scale_up; r is what had been raised before
ScaleUpError_Swallowed(r) == r

ScaleUpError(r) == "scale_up"

\* cluster.scale raises
ScaleUpFails ==
    /\ pc = "scaling"
    /\ failed' = failed \cup {"cluster.scale"}
    /\ raised' = ScaleUpError(raised)
    /\ pc' = "done"
    /\ missed' = FALSE
    /\ UNCHANGED <<config_vars, plan, requested, close_counts, target,
                   rec_skew, reconciled, rec_plan, prev_counts, to_close, rec,
                   run, sd_called, sd_workers, calls, snap_vars, hist_vars>>

\* the tick is over; what it recorded is dropped
AdaptEnd ==
    /\ pc = "done"
    /\ pc' = "idle"
    /\ target' = -1
    /\ rec_skew' = FALSE
    /\ reconciled' = FALSE
    /\ rec_plan' = {}
    /\ prev_counts' = NoCounts
    /\ to_close' = {}
    /\ rec' = NoRec
    /\ sd_called' = FALSE
    /\ sd_workers' = {}
    /\ calls' = <<>>
    /\ failed' = {}
    /\ raised' = "none"
    /\ ticking' = IF ticking > 0 THEN ticking - 1 ELSE 0
    /\ UNCHANGED <<config_vars, missed, plan, requested, close_counts, run, raw_target,
                   was_closed, snap_vars>>

\* the cluster changes plan or requested by one worker on its own, while the
\* loop is idle or suspended in a remote call
Resized(S) ==
    {T \in WorkerSets : Cardinality(T) \in {Cardinality(S) - 1, Cardinality(S) + 1}}

ClusterChanges ==
    /\ pc \in {"idle", "sync", "wtc", "retire", "force", "scaling"}
    /\ \/ plan' \in Resized(plan) /\ requested' = requested
       \/ requested' \in Resized(requested) /\ plan' = plan
    /\ UNCHANGED <<config_vars, missed, close_counts, pc, target, rec_skew, reconciled,
                   rec_plan, prev_counts, to_close, rec, run, sd_called,
                   sd_workers, calls, failed, raised, snap_vars, hist_vars>>

\* the interval elapses while the tick is suspended in a remote call: the tick
\* that is due does not start until the active one has ended
TimerFires ==
    /\ pc \in {"sync", "wtc", "retire", "force", "scaling"}
    /\ ticking > 0
    /\ IF TickMayStart(ticking)
       THEN /\ ticking' = ticking + 1
            /\ missed' = missed
       ELSE /\ ticking' = ticking
            /\ missed' = TRUE
    /\ UNCHANGED <<config_vars, plan, requested, close_counts, pc, target,
                   rec_skew, reconciled, rec_plan, prev_counts, to_close, rec,
                   run, sd_called, sd_workers, calls, failed, raised,
                   raw_target, was_closed, snap_vars>>

Next ==
    \/ AdaptBegin
    \/ AdaptiveRecommendations
    \/ ClusterSynced
    \/ CoreRecommendations
    \/ ElasticRecommendations
    \/ WorkersToCloseReturns
    \/ WorkersToCloseFails
    \/ Dispatch
    \/ CallScaleDown
    \/ ScaleDownEnter
    \/ RetireReturns
    \/ RetireFails
    \/ ForceReturns
    \/ ForceFails
    \/ ScaleUpEnter
    \/ ScaleUpReturns
    \/ ScaleUpFails
    \/ AdaptEnd
    \/ ClusterChanges
    \/ TimerFires

Spec == Init /\ [][Next]_vars

(* --------------------------- SpecTarget -------------------------------- *)
\* the loop is idle and stays so; the snapshot target() reads is drawn freely
InitTarget ==
    /\ strategy = "ElasticAdaptive"
    /\ wait_count = MaxWaitCount
    /\ minimum = 0
    /\ maximum = MaxMaximum
    /\ plan = {}
    /\ requested = {}
    /\ close_counts = InitCloseCounts
    /\ pc = "idle"
    /\ target = -1
    /\ rec_skew = FALSE
    /\ reconciled = FALSE
    /\ rec_plan = {}
    /\ prev_counts = NoCounts
    /\ to_close = {}
    /\ rec = NoRec
    /\ run = NoRun
    /\ sd_called = FALSE
    /\ sd_workers = {}
    /\ calls = <<>>
    /\ failed = {}
    /\ raised = "none"
    /\ kwargs = NoKwargs
    /\ raw_target = -1
    /\ ticking = 0
    /\ was_closed = {}
    /\ missed = FALSE
    /\ \E s \in Snapshots :
          /\ tasks = s.tasks
          /\ sched_workers = s.sched_workers
          /\ cluster_workers = s.cluster_workers
    /\ t_queue = -1
    /\ t_memory = -1
    /\ target_out = -1

\* one call of ElasticAdaptive.target on the snapshot
TargetCall ==
    /\ target_out = -1
    /\ t_queue' = QueueTarget(tasks, sched_workers)
    /\ t_memory' = MemoryTarget(sched_workers, cluster_workers)
    /\ target_out' = ElasticTarget(tasks, sched_workers, cluster_workers)
    /\ UNCHANGED <<tasks, sched_workers, cluster_workers, loop_vars>>

NextTarget == TargetCall

SpecTarget == InitTarget /\ [][NextTarget]_vars

(* ------------------------------ properties ----------------------------- *)
\* ElasticAdaptive.recommendations has returned
Recommended == pc = "dispatch" /\ strategy = "ElasticAdaptive"

\* ... from a tick with target < len(plan)
DownTick == Recommended /\ target < Cardinality(rec_plan)

\* C1: on ticks with target < len(plan), a worker that had no counter and has
\* since been a candidate on fewer than wait_count consecutive ticks is in no
\* ScaleDown result; on the wait_count-th such tick it is in the ScaleDown
\* result and its counter is removed.
C1_Hysteresis ==
    DownTick =>
        \A w \in to_close :
            /\ run[w] < wait_count => w \notin rec.workers
            /\ run[w] = wait_count =>
                   /\ rec.status = "down"
                   /\ w \in rec.workers
                   /\ w \notin DOMAIN close_counts

C1_Witness ==
    /\ DownTick
    /\ wait_count = MaxWaitCount
    /\ wait_count >= 2
    /\ \E w \in to_close :
          /\ run[w] = wait_count
          /\ rec.status = "down"
          /\ w \in rec.workers
          /\ w \notin DOMAIN close_counts

\* C2: on a tick with target < len(plan), a counter whose worker is not among
\* the candidates is deleted, so that worker starts again from 1 when it is next
\* suggested and is closed only after wait_count consecutive suggestions; a
\* candidate's counter goes on counting from its previous value.
C2_ResetNotPaused ==
    DownTick =>
        /\ \A w \in (DOMAIN prev_counts) \ to_close : w \notin DOMAIN close_counts
        /\ \A w \in to_close :
              IF Count(prev_counts, w) + 1 < wait_count
              THEN /\ w \in DOMAIN close_counts
                   /\ close_counts[w] = Count(prev_counts, w) + 1
                   /\ w \notin rec.workers
              ELSE w \in rec.workers

C2_Witness ==
    /\ DownTick
    /\ \E w \in (DOMAIN prev_counts) \ to_close :
          /\ prev_counts[w] < wait_count
          /\ w \notin DOMAIN close_counts
    /\ \E v \in to_close \cap DOMAIN prev_counts :
          /\ v \in DOMAIN close_counts
          /\ close_counts[v] = prev_counts[v] + 1

\* C3: when target = len(plan) the result is Same and the counter map is empty
\* afterwards, whatever it held before.
C3_SameClears ==
    (Recommended /\ target = Cardinality(rec_plan)) =>
        /\ rec = [status |-> "same", n |-> 0, workers |-> {}]
        /\ DOMAIN close_counts = {}

C3_Witness ==
    /\ Recommended
    /\ target = Cardinality(rec_plan)
    /\ DOMAIN prev_counts # {}
    /\ rec.status = "same"
    /\ DOMAIN close_counts = {}

\* C4: when target > len(plan) the result is ScaleUp with n = target (not
\* target - len(plan)) and the counter map is empty afterwards, whatever it
\* held before.
C4_UpClears ==
    (Recommended /\ target > Cardinality(rec_plan)) =>
        /\ rec = [status |-> "up", n |-> target, workers |-> {}]
        /\ DOMAIN close_counts = {}

C4_Witness ==
    /\ Recommended
    /\ target > Cardinality(rec_plan)
    /\ Cardinality(rec_plan) > 0
    /\ DOMAIN prev_counts # {}
    /\ rec.status = "up"
    /\ rec.n = target
    /\ DOMAIN close_counts = {}

\* C5: for both strategies, a recommendation requested while
\* len(plan) # len(requested) is computed only after the reconciliation with
\* the cluster was awaited.
C5_ReconciledBeforeRecommending ==
    (pc = "dispatch" /\ rec_skew) => reconciled

\* C6: scale_down with a non-empty set issues the cluster's scale_down request
\* even when retire_workers failed.
C6_ForcefulAfterFailedRetirement ==
    (pc = "done" /\ sd_called /\ sd_workers # {} /\ "retire_workers" \in failed) =>
        \E i \in 1..Len(calls) : calls[i].op = "cluster.scale_down"

C8_EmptyScaleDownIsNoOp ==
    [][(pc = "scale_down" /\ sd_workers = {}) =>
          /\ pc' = "done"
          /\ calls' = calls
          /\ failed' = failed
          /\ raised' = raised
          /\ close_counts' = close_counts
          /\ plan' = plan
          /\ requested' = requested]_vars

C8_Witness ==
    /\ pc = "done"
    /\ sd_called
    /\ sd_workers = {}
    /\ calls = <<>>

\* the entries of futurePending: one per dependent of each task of S
RECURSIVE Dependents(_, _)
Dependents(ts, S) ==
    IF S = {} THEN 0
    ELSE LET t == CHOOSE x \in S : TRUE
         IN  Cardinality(ts[t].dependents) + Dependents(ts, S \ {t})

Unblocked ==
    {t \in DOMAIN tasks : tasks[t].state \in {"no-worker", "waiting", "processing"}}

\* C9: the queue target is the number of no-worker, waiting and processing
\* tasks, doubled exactly when their dependents, duplicates counted, number
\* strictly more than twice the scheduler's workers.
C9_QueueTarget ==
    target_out # -1 =>
        t_queue = IF Dependents(tasks, Unblocked) > 2 * Cardinality(DOMAIN sched_workers)
                  THEN 2 * Cardinality(Unblocked)
                  ELSE Cardinality(Unblocked)

\* two unblocked tasks share a dependent and the count equals twice the workers
C9_Witness ==
    /\ target_out # -1
    /\ Cardinality(DOMAIN sched_workers) = 1
    /\ Dependents(tasks, Unblocked) = 2
    /\ \E t, u \in Unblocked : t # u /\ tasks[t].dependents \cap tasks[u].dependents # {}
    /\ t_queue = Cardinality(Unblocked)

RECURSIVE Total(_, _, _)
Total(sw, n, field) == IF n = 0 THEN 0 ELSE sw[n][field] + Total(sw, n - 1, field)

C12_ScaleUpErrorPropagates ==
    "cluster.scale" \in failed =>
        /\ raised = "scale_up"
        /\ pc = "done"
        /\ close_counts = NoCounts

C12_Witness ==
    /\ "cluster.scale" \in failed
    /\ raised = "scale_up"
    /\ rec.status = "up"
    /\ strategy = "ElasticAdaptive"

\* C13: for both strategies, the extra keyword arguments of every scheduler
\* workers_to_close call are the extra keyword arguments given to the
\* constructor.
C13_KwargsForwarded ==
    \A i \in 1..Len(calls) :
        calls[i].op = "workers_to_close" => calls[i].kw = kwargs

ScaleDownCalls ==
    SelectSeq(calls, LAMBDA c : c.op \in {"retire_workers", "cluster.scale_down"})

\* C15: scale_down of a non-empty set that meets no error makes exactly one
\* retire_workers request with remove=True and close_workers=True and then
\* exactly one cluster.scale_down request, both naming exactly the workers
\* given; cluster.scale_down is requested only once retire_workers has returned.
C15_GracefulThenForceful ==
    /\ (pc = "done" /\ sd_called /\ sd_workers # {} /\ failed = {}) =>
           /\ Len(ScaleDownCalls) = 2
           /\ ScaleDownCalls[1].op = "retire_workers"
           /\ ScaleDownCalls[1].workers = sd_workers
           /\ ScaleDownCalls[1].flags = {"remove", "close_workers"}
           /\ ScaleDownCalls[2].op = "cluster.scale_down"
           /\ ScaleDownCalls[2].workers = sd_workers
    /\ pc = "retire" => Len(ScaleDownCalls) = 1
    /\ \A i \in 1..Len(ScaleDownCalls) :
           ScaleDownCalls[i].op = "cluster.scale_down" =>
               /\ i = 2
               /\ pc \in {"force", "done"}
               /\ "retire_workers" \notin failed

C15_Witness ==
    /\ pc = "done"
    /\ sd_called
    /\ Cardinality(sd_workers) = NWorkers
    /\ failed = {}
    /\ Len(ScaleDownCalls) = 2

\* C16 as stated: a worker returned in a ScaleDown result has no counter
\* afterwards, and gets none when workers_to_close suggests it again.
C16_NoReaccumulation ==
    /\ (Recommended /\ rec.status = "down") =>
           rec.workers \cap DOMAIN close_counts = {}
    /\ DownTick =>
           \A w \in was_closed \cap to_close : w \notin DOMAIN close_counts

\* C16, amended: a worker returned in a ScaleDown result has no counter
\* afterwards; when workers_to_close suggests it again it is counted like a
\* worker never seen: its counter starts again at 1, and it is returned again
\* on that tick only if wait_count <= 1.
C16_ClosedStartsAfresh ==
    /\ (Recommended /\ rec.status = "down") =>
           rec.workers \cap DOMAIN close_counts = {}
    /\ DownTick =>
           \A w \in was_closed \cap to_close :
               /\ w \notin DOMAIN prev_counts
               /\ IF 1 < wait_count
                  THEN /\ w \in DOMAIN close_counts
                       /\ close_counts[w] = 1
                       /\ w \notin rec.workers
                  ELSE /\ w \notin DOMAIN close_counts
                       /\ w \in rec.workers

C16_Witness ==
    /\ DownTick
    /\ wait_count = MaxWaitCount
    /\ 1 < wait_count
    /\ \E w \in was_closed \cap to_close : close_counts[w] = 1

\* the workers_to_close requests of the tick
CandidateQueries ==
    SelectSeq(calls, LAMBDA c : c.op = "workers_to_close")

\* C17: ElasticAdaptive.recommendations asks workers_to_close(target) exactly
\* once on a tick with target < len(plan) and not at all on a tick with
\* target >= len(plan).
C17_OneCandidateQuery ==
    Recommended =>
        /\ target < Cardinality(rec_plan) =>
               /\ Len(CandidateQueries) = 1
               /\ CandidateQueries[1].n = target
        /\ target >= Cardinality(rec_plan) => Len(CandidateQueries) = 0

C17_Witness ==
    /\ DownTick
    /\ Len(CandidateQueries) = 1
    /\ to_close # {}

\* C18: with wait_count >= 1, whenever ElasticAdaptive.recommendations has
\* returned, and between ticks, every counter c has 1 <= c <= wait_count - 1.
C18_CounterRange ==
    (strategy = "ElasticAdaptive" /\ wait_count >= 1) =>
        \A w \in DOMAIN close_counts :
            1 <= close_counts[w] /\ close_counts[w] <= wait_count - 1

C18_Witness ==
    /\ Recommended
    /\ wait_count = MaxWaitCount
    /\ \E w \in DOMAIN close_counts : close_counts[w] = wait_count - 1
    /\ \E w \in DOMAIN close_counts : close_counts[w] = 1

\* C19: a ScaleDown result of ElasticAdaptive.recommendations comes only on a
\* tick with target < len(plan), names at least one worker, and names only
\* candidates workers_to_close returned on that tick.
C19_ScaleDownFromCandidates ==
    (Recommended /\ rec.status = "down") =>
        /\ target < Cardinality(rec_plan)
        /\ rec.workers # {}
        /\ rec.workers \subseteq to_close

C19_Witness ==
    /\ Recommended
    /\ rec.status = "down"
    /\ rec.workers # {}
    /\ \E w \in (DOMAIN prev_counts) \ to_close : w \notin rec.workers

\* C20: when workers_to_close fails on a tick with target < len(plan), the
\* counter map is as it was when recommendations was entered, the error leaves
\* recommendations and no recommendation is returned.
C20_FailedQueryKeepsCounters ==
    "workers_to_close" \in failed =>
        /\ close_counts = prev_counts
        /\ rec = NoRec
        /\ raised = "recommendations"
        /\ pc = "done"
        /\ target < Cardinality(rec_plan)

C20_Witness ==
    /\ "workers_to_close" \in failed
    /\ strategy = "ElasticAdaptive"
    /\ close_counts = prev_counts
    /\ close_counts # NoCounts

====
